---- MODULE Spec2Model ----
(***************************************************************************)
(* The FindShops page (src/src/pages/FindShops.tsx) as a state machine:    *)
(* the React state slots, the two effects, the two asynchronous remote     *)
(* reads and their resolutions, and the render function.  Text is a        *)
(* sequence of one-character strings; the filter expression handed to the  *)
(* data store is built by concatenation, as the code builds it, and read   *)
(* back by the store by splitting at commas.                               *)
(***************************************************************************)
EXTENDS Naturals, Sequences, FiniteSets

VARIABLES
  businesses,        \* useState<Business[]>([])   (row identifiers, in order)
  categories,        \* useState<string[]>([])
  loading,           \* useState(true)
  searchTerm,        \* useState("")
  selectedCategory,  \* useState("all")
  locationFilter,    \* useState("")
  mounted,           \* whether the mount effects have run
  inflight,          \* business fetches issued and not yet resolved
  catState,          \* the category read: "idle", "pending" or "done"
  toasts,            \* number of toast() calls made
  issued,            \* number of business fetches issued so far
  failed,            \* number of business fetches that resolved with an error
  catIssued,         \* number of category reads issued so far
  last,              \* the last event handled: its kind and, for a
                     \* resolution, the request's id and query and the data
  running            \* the handler being run statement by statement: the
                     \* statements still to run and those already run

vars == <<businesses, categories, loading, searchTerm, selectedCategory,
          locationFilter, mounted, inflight, catState, toasts, issued, failed,
          catIssued, last, running>>

filters == <<searchTerm, selectedCategory, locationFilter>>

(***************************************************************************)
(* Bounds.                                                                 *)
(***************************************************************************)
\* Business fetches issued during one mount.
MaxFetches == 2
\* Length of a typed search or location text.
MaxLen == 1

(***************************************************************************)
(* Text.                                                                   *)
(***************************************************************************)
\* The characters a user types here; "," is the separator of the store's
\* filter expression language.
Chars == {"a", ","}

TextsUpTo(n) == UNION {[1..k -> Chars] : k \in 0..n}

\* A missing (null) column value or row list.
Null == <<"NULL">>

LowerChar(c) == CASE c = "A" -> "a" [] c = "B" -> "b" [] OTHER -> c

Lower(s) == [i \in 1..Len(s) |-> LowerChar(s[i])]

\* Case-insensitive substring test.
Contains(s, term) ==
  /\ s # Null
  /\ \E i \in 1..(Len(s) + 1) :
       /\ i + Len(term) - 1 <= Len(s)
       /\ SubSeq(Lower(s), i, i + Len(term) - 1) = Lower(term)

RECURSIVE Join(_, _)
Join(parts, sep) ==
  IF parts = <<>> THEN <<>>
  ELSE IF Len(parts) = 1 THEN parts[1]
  ELSE parts[1] \o sep \o Join(Tail(parts), sep)

RECURSIVE Split(_, _)
\* The pieces of s between occurrences of sep (always at least one piece).
Split(s, sep) ==
  IF \A i \in 1..Len(s) : s[i] # sep THEN <<s>>
  ELSE LET i == CHOOSE j \in 1..Len(s) :
                  s[j] = sep /\ \A k \in 1..(j - 1) : s[k] # sep
       IN <<SubSeq(s, 1, i - 1)>> \o Split(SubSeq(s, i + 1, Len(s)), sep)

(***************************************************************************)
(* The remote data store: two read-only collections and the filter         *)
(* language of its query builder.                                          *)
(***************************************************************************)
\* The rows of "businesses".  Ratings are distinct, so the rating order is
\* determined; the identifier order is not the rating order.
BusinessIds == {"b1", "b2", "b3", "b4"}

Businesses ==
  [id \in BusinessIds |->
     CASE id = "b1" -> [name |-> <<"A">>, description |-> Null,
                        products_catalog |-> <<>>, category |-> "cafe",
                        city |-> <<"b">>, state |-> <<"a">>, rating |-> 5]
       [] id = "b2" -> [name |-> <<"x">>, description |-> <<>>,
                        products_catalog |-> <<"c">>, category |-> "cafe",
                        city |-> <<"A", "b">>, state |-> <<"b">>, rating |-> 3]
       [] id = "b3" -> [name |-> <<"x">>, description |-> <<"b", "a">>,
                        products_catalog |-> <<>>, category |-> "cafe",
                        city |-> <<"x">>, state |-> <<"B">>, rating |-> 4]
       [] id = "b4" -> [name |-> <<"y">>, description |-> <<"b">>,
                        products_catalog |-> <<>>, category |-> "bakery",
                        city |-> <<"a">>, state |-> <<"x">>, rating |-> 2]]

\* The rows of "business_categories", as .order("name") returns them.
CategoryNames == <<"Bakery", "Cafe">>

TextColumns == {"name", "description", "products_catalog", "city", "state"}

RECURSIVE Like(_, _)
\* SQL LIKE: "%" matches any run of characters, "_" any one character.
Like(p, s) ==
  IF p = <<>> THEN s = <<>>
  ELSE IF Head(p) = "%"
       THEN Like(Tail(p), s) \/ (s # <<>> /\ Like(p, Tail(s)))
       ELSE /\ s # <<>>
            /\ (Head(p) = "_" \/ Head(p) = Head(s))
            /\ Like(Tail(p), Tail(s))

\* column ILIKE pattern; a null column matches nothing.
ILike(p, s) == s # Null /\ Like(Lower(p), Lower(s))

\* One condition of an or-expression: column.ilike.pattern
WellFormed(cond) ==
  /\ Len(cond) >= 5
  /\ cond[1] \in TextColumns
  /\ cond[2] = "."
  /\ cond[3] = "ilike"
  /\ cond[4] = "."

CondHolds(cond, row) == ILike(SubSeq(cond, 5, Len(cond)), row[cond[1]])

\* The store reads an or-expression as its comma-separated conditions.
OrWellFormed(expr) ==
  LET conds == Split(expr, ",")
  IN  \A i \in 1..Len(conds) : WellFormed(conds[i])

OrHolds(expr, row) ==
  LET conds == Split(expr, ",")
  IN  \E i \in 1..Len(conds) : CondHolds(conds[i], row)

RowSelected(q, row) ==
  /\ \A i \in 1..Len(q.ors) : OrHolds(q.ors[i], row)
  /\ \A i \in 1..Len(q.eqs) : row[q.eqs[i][1]] = q.eqs[i][2]

RECURSIVE SortByRatingDesc(_)
SortByRatingDesc(ids) ==
  IF ids = {} THEN <<>>
  ELSE LET top == CHOOSE i \in ids :
                    \A j \in ids : Businesses[j].rating <= Businesses[i].rating
       IN <<top>> \o SortByRatingDesc(ids \ {top})

\* What the store answers to query q: an error when an or-expression cannot
\* be parsed, otherwise the selected rows in the order asked for.
Execute(q) ==
  IF \E i \in 1..Len(q.ors) : ~OrWellFormed(q.ors[i])
  THEN [error |-> TRUE, data |-> Null]
  ELSE [error |-> FALSE,
        data |-> SortByRatingDesc({id \in BusinessIds :
                                     RowSelected(q, Businesses[id])})]

(***************************************************************************)
(* The utilities of synonymDictionary.                                     *)
(***************************************************************************)
\* The related terms of a search text, the text itself first.
expandSearchTerms(text) ==
  IF Lower(text) = <<"a">> THEN <<text, <<"c">>>> ELSE <<text>>

\* The stored form of a category label.
normalizeCategoryName(label) ==
  CASE label = "Cafe" -> "cafe"
    [] label = "Bakery" -> "bakery"
    [] OTHER -> label

(***************************************************************************)
(* fetchBusinesses: the query it builds.                                   *)
(***************************************************************************)
\* `name.ilike.%${term}%,description.ilike.%${term}%,products_catalog.ilike.%${term}%`
TermQuery(term) ==
  <<"name", ".", "ilike", ".", "%">> \o term \o <<"%", ",">>
  \o <<"description", ".", "ilike", ".", "%">> \o term \o <<"%", ",">>
  \o <<"products_catalog", ".", "ilike", ".", "%">> \o term \o <<"%">>

\* expandedTerms.map(...).join(',')
SearchQuery(terms) ==
  Join([i \in 1..Len(terms) |-> TermQuery(terms[i])], <<",">>)

\* `city.ilike.%${locationFilter}%,state.ilike.%${locationFilter}%`
LocationQuery(loc) ==
  <<"city", ".", "ilike", ".", "%">> \o loc \o <<"%", ",">>
  \o <<"state", ".", "ilike", ".", "%">> \o loc \o <<"%">>

BuildQuery(s, c, l) ==
  [ors |-> (IF s # <<>> THEN <<SearchQuery(expandSearchTerms(s))>> ELSE <<>>)
           \o (IF l # <<>> THEN <<LocationQuery(l)>> ELSE <<>>),
   eqs |-> IF c # "all" THEN <<<<"category", normalizeCategoryName(c)>>>>
           ELSE <<>>]

IsDefault(s, c, l) == ~(s # <<>> \/ c # "all" \/ l # <<>>)

\* The values the filter controls can hand to the setters.
CategoryInputs == {"all", "Cafe", "Bakery"}

Texts == TextsUpTo(MaxLen)

\* The store's answer to every query the page can build.
Answer ==
  [q \in {BuildQuery(s, c, l) : s \in Texts, c \in CategoryInputs, l \in Texts}
     |-> Execute(q)]

(***************************************************************************)
(* The component: state after construction, effects, handlers.             *)
(***************************************************************************)
\* data || []
Rows(data) == IF data = Null THEN <<>> ELSE data

NoQuery == [ors |-> <<>>, eqs |-> <<>>]

Event(kind) == [kind |-> kind, id |-> 0, query |-> NoQuery, data |-> Null]

\* No handler has been run statement by statement.
Idle == [handler |-> "none", todo |-> <<>>, did |-> <<>>, data |-> Null]

\* Handlers run to completion: none starts while another has statements left.
Quiet == running.todo = <<>>

Init ==
  /\ running = Idle
  /\ businesses = <<>>
  /\ categories = <<>>
  /\ loading = TRUE
  /\ searchTerm = <<>>
  /\ selectedCategory = "all"
  /\ locationFilter = <<>>
  /\ mounted = FALSE
  /\ inflight = {}
  /\ catState = "idle"
  /\ toasts = 0
  /\ issued = 0
  /\ failed = 0
  /\ catIssued = 0
  /\ last = Event("init")

\* fetchCategories up to its await: the read is issued.
fetchCategories ==
  /\ catState' = "pending"
  /\ catIssued' = catIssued + 1

\* (Variant: the query is built from the values of the render before.)
fetchBusinessesStale(s, c, l) ==
  /\ loading' = TRUE
  /\ inflight' = inflight \cup {[id |-> issued + 1, query |-> BuildQuery(
                     searchTerm, selectedCategory, locationFilter)]}
  /\ issued' = issued + 1
  /\ UNCHANGED businesses

\* fetchBusinesses up to its await, run in a render whose filter values are
\* s, c, l: loading is set and the query built from them is issued.
fetchBusinesses(s, c, l) ==
  /\ loading' = TRUE
  /\ inflight' = inflight \cup {[id |-> issued + 1, query |-> BuildQuery(s, c, l)]}
  /\ issued' = issued + 1
  /\ UNCHANGED businesses

\* (Variant: the default branch leaves the list alone.)
FilterEffectKeepsList(s, c, l) ==
  IF ~IsDefault(s, c, l)
  THEN fetchBusinesses(s, c, l)
  ELSE /\ loading' = FALSE
       /\ UNCHANGED <<businesses, inflight, issued>>

\* The effect with dependencies [searchTerm, selectedCategory, locationFilter].
FilterEffect(s, c, l) ==
  IF ~IsDefault(s, c, l)
  THEN fetchBusinesses(s, c, l)
  ELSE /\ businesses' = <<>>
       /\ loading' = FALSE
       /\ UNCHANGED <<inflight, issued>>

\* First commit: both effects run, in the order written.
Mount ==
  /\ ~mounted
  /\ Quiet
  /\ UNCHANGED running
  /\ mounted' = TRUE
  /\ fetchCategories
  /\ FilterEffect(searchTerm, selectedCategory, locationFilter)
  /\ last' = Event("mount")
  /\ UNCHANGED <<categories, searchTerm, selectedCategory, locationFilter,
                 toasts, failed>>

\* (Variant: no dependency list, the effect runs after every render.)
MountEffectEveryRender ==
  /\ catState' = "pending"
  /\ catIssued' = catIssued + 1

\* The effect with dependencies []: a re-render does not run it again.
MountEffectOnRerender == UNCHANGED <<catState, catIssued>>

\* A filter setter called with a new value: the re-render runs the effect.
\* (A setter called with the current value re-renders nothing.)
FilterChanged(s, c, l) ==
  /\ mounted
  /\ Quiet
  /\ UNCHANGED running
  /\ <<s, c, l>> # filters
  /\ IsDefault(s, c, l) \/ issued < MaxFetches
  /\ searchTerm' = s
  /\ selectedCategory' = c
  /\ locationFilter' = l
  /\ FilterEffect(s, c, l)
  /\ MountEffectOnRerender
  /\ last' = Event("filter")
  /\ UNCHANGED <<categories, mounted, toasts, failed>>

\* onSearchChange={setSearchTerm}
SetSearchTerm(v) == FilterChanged(v, selectedCategory, locationFilter)

\* onCategoryChange={setSelectedCategory}
SetSelectedCategory(v) == FilterChanged(searchTerm, v, locationFilter)

\* onLocationChange={setLocationFilter}
SetLocationFilter(v) == FilterChanged(searchTerm, selectedCategory, v)

\* (Variant: setBusinesses(data), a missing row list not replaced by [].)
OnBusinessesDataRaw(r, data) ==
  /\ businesses' = data
  /\ loading' = FALSE
  /\ UNCHANGED toasts

\* (Variant: the rows are added to the list.)
OnBusinessesDataAppends(r, data) ==
  /\ businesses' = businesses \o Rows(data)
  /\ loading' = FALSE
  /\ UNCHANGED toasts

\* (Variant: no finally block.)
OnBusinessesDataKeepsLoading(r, data) ==
  /\ businesses' = Rows(data)
  /\ UNCHANGED <<loading, toasts>>

\* (Variant: a response is applied only for the request issued last.)
OnBusinessesDataLatestOnly(r, data) ==
  /\ businesses' = (IF r.id = issued THEN Rows(data) ELSE businesses)
  /\ loading' = (IF r.id = issued THEN FALSE ELSE loading)
  /\ UNCHANGED toasts

\* The call of fetchBusinesses that issued request r, after its await, no
\* error: setBusinesses(data || []), then the finally block.
OnBusinessesData(r, data) ==
  /\ businesses' = Rows(data)
  /\ loading' = FALSE
  /\ UNCHANGED toasts

\* (Variant: the failure is logged only.)
OnBusinessesErrorSilent(r) ==
  /\ loading' = FALSE
  /\ UNCHANGED <<toasts, businesses>>

\* (Variant: the failure clears the list.)
OnBusinessesErrorClears(r) ==
  /\ toasts' = toasts + 1
  /\ loading' = FALSE
  /\ businesses' = <<>>

\* (Variant: no finally block.)
OnBusinessesErrorNoFinally(r) ==
  /\ toasts' = toasts + 1
  /\ UNCHANGED <<loading, businesses>>

\* The call of fetchBusinesses that issued request r, after its await, error
\* thrown: the catch block, then the finally block.
OnBusinessesError(r) ==
  /\ toasts' = toasts + 1
  /\ loading' = FALSE
  /\ UNCHANGED businesses

\* The store answers request r with rows, or with no row list.
ResolveBusinesses(r, data) ==
  /\ r \in inflight
  /\ Quiet
  /\ UNCHANGED running
  /\ ~Answer[r.query].error
  /\ data \in {Answer[r.query].data, Null}
  /\ inflight' = inflight \ {r}
  /\ OnBusinessesData(r, data)
  /\ last' = [kind |-> "businessesData", id |-> r.id, query |-> r.query,
               data |-> data]
  /\ UNCHANGED <<categories, searchTerm, selectedCategory, locationFilter,
                 mounted, catState, issued, failed, catIssued>>

\* (Variant: the catch block calls fetchBusinesses again, while the bound on
\* fetches allows.)
RetryOnError(r) ==
  IF issued < MaxFetches
  THEN /\ inflight' = (inflight \ {r}) \cup {[id |-> issued + 1, query |-> r.query]}
       /\ issued' = issued + 1
  ELSE /\ inflight' = inflight \ {r}
       /\ UNCHANGED issued

\* The catch and finally blocks issue no request, and the re-render they
\* cause runs no effect (loading is not a dependency): request r is over.
NoRetry(r) ==
  /\ inflight' = inflight \ {r}
  /\ UNCHANGED issued

\* Request r is rejected: by the store (an expression it cannot parse) or on
\* its way there.
RejectBusinesses(r) ==
  /\ r \in inflight
  /\ Quiet
  /\ UNCHANGED running
  /\ NoRetry(r)
  /\ OnBusinessesError(r)
  /\ failed' = failed + 1
  /\ last' = [kind |-> "businessesError", id |-> r.id, query |-> r.query,
               data |-> Null]
  /\ UNCHANGED <<categories, searchTerm, selectedCategory, locationFilter,
                 mounted, catState, catIssued>>

\* fetchCategories after its await, no error.
OnCategoriesData(data) ==
  /\ categories' = Rows(data)
  /\ UNCHANGED <<businesses, loading, toasts>>

\* (Variant: the catch block of fetchBusinesses, copied.)
OnCategoriesErrorNotifies ==
  /\ toasts' = toasts + 1
  /\ loading' = FALSE
  /\ UNCHANGED <<categories, businesses>>

\* fetchCategories after its await, error thrown: logged only.
OnCategoriesError == UNCHANGED <<categories, businesses, loading, toasts>>

ResolveCategories(data) ==
  /\ catState = "pending"
  /\ Quiet
  /\ UNCHANGED running
  /\ catState' = "done"
  /\ OnCategoriesData(data)
  /\ last' = [Event("categoriesData") EXCEPT !.data = data]
  /\ UNCHANGED <<searchTerm, selectedCategory, locationFilter, mounted,
                 inflight, issued, failed, catIssued>>

RejectCategories ==
  /\ catState = "pending"
  /\ Quiet
  /\ UNCHANGED running
  /\ catState' = "done"
  /\ OnCategoriesError
  /\ last' = Event("categoriesError")
  /\ UNCHANGED <<searchTerm, selectedCategory, locationFilter, mounted,
                 inflight, issued, failed, catIssued>>

\* The render function: what the result area shows.
View ==
  IF loading THEN [kind |-> "placeholders", count |-> 6, cards |-> <<>>]
  ELSE IF Len(businesses) > 0
       THEN [kind |-> "cards", count |-> Len(businesses), cards |-> businesses]
       ELSE [kind |-> "empty", count |-> 0, cards |-> <<>>]

(***************************************************************************)
(* Specifications.                                                         *)
(***************************************************************************)
\* Texts typed while fetches may overlap.
SearchInputs == {<<>>, <<"a">>}

LocationInputs == {<<>>, <<"a">>}

BusinessResolution ==
  \/ \E r \in inflight : \E data \in {Answer[r.query].data, Null} :
       ResolveBusinesses(r, data)
  \/ \E r \in inflight : RejectBusinesses(r)

CategoriesResolution ==
  \/ ResolveCategories(CategoryNames)
  \/ ResolveCategories(Null)
  \/ RejectCategories

Resolution == BusinessResolution \/ CategoriesResolution

\* Any interleaving of filter changes and resolutions.
Next ==
  \/ Mount
  \/ \E v \in SearchInputs : SetSearchTerm(v)
  \/ \E v \in CategoryInputs : SetSelectedCategory(v)
  \/ \E v \in LocationInputs : SetLocationFilter(v)
  \/ Resolution

Spec == Init /\ [][Next]_vars

\* Several setters called in one event are one re-render.
SetSeveral(s, c, l) == FilterChanged(s, c, l)

\* One fetch at a time: the filters change only while no business fetch is
\* outstanding.  Any text up to MaxLen characters.
NextSeq ==
  \/ Mount
  \/ inflight = {} /\ \E v \in Texts : SetSearchTerm(v)
  \/ inflight = {} /\ \E v \in CategoryInputs : SetSelectedCategory(v)
  \/ inflight = {} /\ \E v \in Texts : SetLocationFilter(v)
  \/ inflight = {} /\ \E s \in Texts, c \in CategoryInputs, l \in Texts :
                        SetSeveral(s, c, l)
  \/ Resolution

SpecSeq == Init /\ [][NextSeq]_vars

\* The mount effects run, and every business fetch is eventually answered.
SpecLive == Spec /\ WF_vars(Mount) /\ WF_vars(BusinessResolution)

(***************************************************************************)
(* The same handlers, one statement at a time.                             *)
(***************************************************************************)
\* fetchBusinesses up to its await (lines 68-95).
fetchStatements == <<"setLoading(true)", "await query">>

\* The else branch of the filter effect (lines 48-49).
defaultStatements == <<"setBusinesses([])", "setLoading(false)">>

\* (Variant: loading is cleared as soon as the answer is in.)
dataStatementsClearFirst == <<"setLoading(false)", "setBusinesses(data || [])">>

\* fetchBusinesses after its await, no error (lines 98, 107).
dataStatements == <<"setBusinesses(data || [])", "setLoading(false)">>

\* fetchBusinesses after its await, error thrown (lines 100-107).
errorStatements == <<"toast", "setLoading(false)">>

Handler(name, todo, data) ==
  [handler |-> name, todo |-> todo, did |-> <<>>, data |-> data]

\* A filter setter called with a new value; the effect's statements follow.
StartFilterChange(s, c, l) ==
  /\ mounted
  /\ Quiet
  /\ <<s, c, l>> # filters
  /\ IsDefault(s, c, l) \/ issued < MaxFetches
  /\ searchTerm' = s
  /\ selectedCategory' = c
  /\ locationFilter' = l
  /\ running' = IF ~IsDefault(s, c, l)
                THEN Handler("fetch", fetchStatements, Null)
                ELSE Handler("default", defaultStatements, Null)
  /\ last' = Event("filter")
  /\ UNCHANGED <<businesses, categories, loading, mounted, inflight, catState,
                 toasts, issued, failed, catIssued>>

\* The store answers request r; the continuation's statements follow.
StartData(r, data) ==
  /\ r \in inflight
  /\ Quiet
  /\ ~Answer[r.query].error
  /\ data \in {Answer[r.query].data, Null}
  /\ inflight' = inflight \ {r}
  /\ running' = Handler("data", dataStatements, data)
  /\ last' = [kind |-> "businessesData", id |-> r.id, query |-> r.query,
               data |-> data]
  /\ UNCHANGED <<businesses, categories, loading, searchTerm, selectedCategory,
                 locationFilter, mounted, catState, toasts, issued, failed,
                 catIssued>>

\* Request r is rejected; the catch and finally statements follow.
StartError(r) ==
  /\ r \in inflight
  /\ Quiet
  /\ inflight' = inflight \ {r}
  /\ failed' = failed + 1
  /\ running' = Handler("error", errorStatements, Null)
  /\ last' = [kind |-> "businessesError", id |-> r.id, query |-> r.query,
               data |-> Null]
  /\ UNCHANGED <<businesses, categories, loading, searchTerm, selectedCategory,
                 locationFilter, mounted, catState, toasts, issued, catIssued>>

\* What one statement does to the state.
StatementEffect(st) ==
  CASE st = "setLoading(true)" ->
         /\ loading' = TRUE
         /\ UNCHANGED <<businesses, toasts, inflight, issued>>
    [] st = "setLoading(false)" ->
         /\ loading' = FALSE
         /\ UNCHANGED <<businesses, toasts, inflight, issued>>
    [] st = "await query" ->
         /\ inflight' = inflight \cup
                          {[id |-> issued + 1,
                            query |-> BuildQuery(searchTerm, selectedCategory,
                                                 locationFilter)]}
         /\ issued' = issued + 1
         /\ UNCHANGED <<businesses, toasts, loading>>
    [] st = "setBusinesses(data || [])" ->
         /\ businesses' = Rows(running.data)
         /\ UNCHANGED <<loading, toasts, inflight, issued>>
    [] st = "setBusinesses([])" ->
         /\ businesses' = <<>>
         /\ UNCHANGED <<loading, toasts, inflight, issued>>
    [] st = "toast" ->
         /\ toasts' = toasts + 1
         /\ UNCHANGED <<businesses, loading, inflight, issued>>

\* The running handler executes its next statement.
ExecStatement ==
  /\ ~Quiet
  /\ StatementEffect(Head(running.todo))
  /\ running' = [running EXCEPT !.todo = Tail(@),
                                !.did = Append(@, Head(running.todo))]
  /\ UNCHANGED <<categories, searchTerm, selectedCategory, locationFilter,
                 mounted, catState, failed, catIssued, last>>

NextSteps ==
  \/ Mount
  \/ \E v \in SearchInputs :
       StartFilterChange(v, selectedCategory, locationFilter)
  \/ \E v \in CategoryInputs :
       StartFilterChange(searchTerm, v, locationFilter)
  \/ \E v \in LocationInputs :
       StartFilterChange(searchTerm, selectedCategory, v)
  \/ \E r \in inflight : \E data \in {Answer[r.query].data, Null} :
       StartData(r, data)
  \/ \E r \in inflight : StartError(r)
  \/ ExecStatement
  \/ CategoriesResolution

SpecSteps == Init /\ [][NextSteps]_vars

(***************************************************************************)
(* Properties.                                                             *)
(***************************************************************************)
FiltersDefault == IsDefault(searchTerm, selectedCategory, locationFilter)

CurrentQuery == BuildQuery(searchTerm, selectedCategory, locationFilter)

\* C1: once mounted, whenever the three filters are at their defaults the
\* business list is empty and loading is false, and no business fetch was
\* issued for the default filters.
C1_DefaultFiltersShowNothing ==
  (mounted /\ FiltersDefault) =>
    /\ businesses = <<>>
    /\ loading = FALSE
    /\ \A r \in inflight : r.query # BuildQuery(<<>>, "all", <<>>)

\* C2: while at least one business fetch is outstanding, loading is true and
\* the view is the 6 placeholder cards.
C2_OutstandingShowsPlaceholders ==
  inflight # {} =>
    /\ loading = TRUE
    /\ View.kind = "placeholders"
    /\ View.count = 6

\* C3: a step that changes the filter triple to a non-default value issues
\* exactly one business fetch, with the query built from the new values; a
\* step that changes it to the default triple issues none; a step that leaves
\* the triple alone (mount, any resolution) issues none.
C3_OneFetchPerChange ==
  [][ /\ (filters' # filters /\ ~FiltersDefault') =>
           /\ issued' = issued + 1
           /\ \E r \in inflight' :
                /\ r \notin inflight
                /\ inflight' = inflight \cup {r}
                /\ r.query = CurrentQuery'
      /\ (filters' # filters /\ FiltersDefault') =>
           /\ issued' = issued
           /\ inflight' = inflight
      /\ (filters' = filters) =>
           /\ issued' = issued
           /\ inflight' \subseteq inflight ]_vars

\* A filter change has just issued the second fetch, for the new filters,
\* while the first is still outstanding under other filters.
C3_Witness ==
  /\ last.kind = "filter"
  /\ ~FiltersDefault
  /\ issued = 2
  /\ \E r1, r2 \in inflight :
       /\ r1.id = 1 /\ r1.query # CurrentQuery
       /\ r2.id = 2 /\ r2.query = CurrentQuery

\* The clauses of section 4.2, read on one row: the search clause (present
\* iff the search text is non-empty) holds iff some expanded term is a
\* case-insensitive substring of name, description or products_catalog; the
\* category clause (present iff the category is not "all") holds iff the
\* category column equals the normalized category; the location clause
\* (present iff the location text is non-empty) holds iff the location is a
\* case-insensitive substring of city or state.
ClausesHold(s, c, l, row) ==
  /\ s # <<>> =>
       \E i \in 1..Len(expandSearchTerms(s)) :
         \E col \in {"name", "description", "products_catalog"} :
           Contains(row[col], expandSearchTerms(s)[i])
  /\ c # "all" => row.category = normalizeCategoryName(c)
  /\ l # <<>> => Contains(row.city, l) \/ Contains(row.state, l)

\* The answer ans selects exactly the rows satisfying every present clause
\* of the triple s, c, l, each once, by rating descending.
SelectsByClauses(ans, s, c, l) ==
  LET want == {id \in BusinessIds : ClausesHold(s, c, l, Businesses[id])}
  IN  /\ ~ans.error
      /\ {ans.data[i] : i \in 1..Len(ans.data)} = want
      /\ Len(ans.data) = Cardinality(want)
      /\ \A i, j \in 1..Len(ans.data) :
           i < j => Businesses[ans.data[i]].rating >= Businesses[ans.data[j]].rating

\* C4: the query issued for a filter triple selects a business iff it
\* satisfies every present clause (search: some expanded term in name,
\* description or products_catalog; category: equality with the normalized
\* category; location: city or state), ordered by rating descending.
C4_QueryPredicate ==
  \A r \in inflight :
    (last.kind = "filter" /\ r.id = issued) =>
      SelectsByClauses(Answer[r.query], searchTerm, selectedCategory,
                       locationFilter)

HasComma(text) == \E i \in 1..Len(text) : text[i] = ","

\* The same, for filter texts without a comma: this much holds.
QueryPredicateWithoutCommas ==
  \A r \in inflight :
    (/\ last.kind = "filter" /\ r.id = issued
     /\ ~HasComma(searchTerm) /\ ~HasComma(locationFilter)) =>
      SelectsByClauses(Answer[r.query], searchTerm, selectedCategory,
                       locationFilter)

\* A query with all three clauses present has been issued and answered.
AllClausesAnswered ==
  /\ last.kind = "businessesData"
  /\ Len(last.query.ors) = 2
  /\ Len(last.query.eqs) = 1
  /\ Len(businesses) > 1

\* C5: the number of notifications raised equals the number of business
\* fetches that failed (one per failure, none otherwise), and loading is
\* false right after a failure is handled.
C5_OneToastPerFailure ==
  /\ toasts = failed
  /\ last.kind = "businessesError" => loading = FALSE

\* Two fetches were outstanding together and both have failed.
C5_Witness ==
  /\ last.kind = "businessesError"
  /\ last.id = 1
  /\ failed = 2
  /\ toasts = 2
  /\ inflight = {}

\* C6: a step that handles a business fetch failure leaves the business list
\* as it was.
C6_FailureKeepsList ==
  [][failed' # failed => businesses' = businesses]_vars

\* After a failure the list still shows an earlier fetch's rows, which are
\* not the rows the current filters select.
C6_Witness ==
  /\ last.kind = "businessesError"
  /\ last.query = CurrentQuery
  /\ inflight = {}
  /\ businesses # <<>>
  /\ businesses # Answer[CurrentQuery].data

\* C7: right after a business fetch resolves successfully with rows (none
\* when the row list is missing), the business list is those rows in the
\* order received and loading is false, so the view is one card per row in
\* that order, or the empty-state message when there are no rows.
C7_SuccessShowsRows ==
  last.kind = "businessesData" =>
    /\ businesses = Rows(last.data)
    /\ loading = FALSE
    /\ View = IF Len(Rows(last.data)) > 0
              THEN [kind |-> "cards", count |-> Len(Rows(last.data)),
                    cards |-> Rows(last.data)]
              ELSE [kind |-> "empty", count |-> 0, cards |-> <<>>]

\* A fetch resolved with three rows whose order is not the identifier order.
C7_Witness ==
  /\ last.kind = "businessesData"
  /\ last.data = <<"b1", "b3", "b2">>
  /\ View.kind = "cards"
  /\ View.count = 3

\* The second fetch resolved with a missing row list: the empty-state message.
C7_WitnessMissing ==
  /\ last.kind = "businessesData"
  /\ last.data = Null
  /\ last.id = 2
  /\ View.kind = "empty"

\* C8: the category read is issued exactly once, by the mount, whatever
\* filter changes and resolutions follow; right after it resolves
\* successfully the category list is the returned names in their order.
C8_CategoriesReadOnce ==
  /\ catIssued = (IF mounted THEN 1 ELSE 0)
  /\ last.kind = "categoriesData" => categories = Rows(last.data)

\* The names are stored after two filter changes and two resolutions.
C8_Witness ==
  /\ categories = CategoryNames
  /\ catState = "done"
  /\ issued = 2
  /\ inflight = {}
  /\ catIssued = 1

\* C9: the response that resolves is applied whether or not its fetch is the
\* one issued last: right after a successful resolution of an earlier fetch
\* the list is that fetch's rows.
C9_LastResolvedWins ==
  (last.kind = "businessesData" /\ last.id # issued) =>
    businesses = Rows(last.data)

\* Two overlapping fetches have both succeeded, the earlier one last: no
\* fetch is outstanding and the list is the response to a filter triple
\* other than the current one.
C9_Witness ==
  /\ inflight = {}
  /\ issued = 2
  /\ failed = 0
  /\ last.kind = "businessesData"
  /\ last.id = 1
  /\ last.query # CurrentQuery
  /\ businesses = Answer[last.query].data
  /\ businesses # Answer[CurrentQuery].data

\* C10: once the mount effects have run and every issued business fetch has
\* been answered, loading is false and stays false.
C10_LoadingEventuallyCleared == <>[](loading = FALSE)

\* Every fetch the bound allows has been issued and answered, one of them
\* with a failure, and the page is out of the placeholder state.
C10_Witness ==
  /\ issued = MaxFetches
  /\ inflight = {}
  /\ last.kind = "businessesError"
  /\ ~FiltersDefault
  /\ View.kind # "placeholders"

\* C11: a step that handles a category load failure leaves the category
\* list empty, raises no notification and changes neither the business list,
\* the loading flag nor the three filter values.
C11_CategoryFailureIsolated ==
  [][(catState = "pending" /\ last'.kind = "categoriesError") =>
       /\ categories' = <<>>
       /\ toasts' = toasts
       /\ businesses' = businesses
       /\ loading' = loading
       /\ filters' = filters]_vars

\* The category load failed while results were displayed behind the
\* placeholders of a second fetch: all of that is still in place.
C11_Witness ==
  /\ last.kind = "categoriesError"
  /\ categories = <<>>
  /\ toasts = 0
  /\ businesses # <<>>
  /\ loading = TRUE
  /\ ~FiltersDefault

\* C12: no request is issued again on its own.  A step that handles a
\* business fetch failure issues nothing, and a business fetch is issued only
\* by a step that changes a filter value; once the category read has been
\* answered (with data or with an error) no category read is issued again.
C12_NoAutomaticRetry ==
  [][ /\ failed' # failed =>
           /\ issued' = issued
           /\ inflight' \subseteq inflight
           /\ catIssued' = catIssued
      /\ (issued' # issued \/ ~(inflight' \subseteq inflight)) =>
           filters' # filters
      /\ catState = "done" =>
           /\ catState' = "done"
           /\ catIssued' = catIssued ]_vars

\* A business fetch failed, then the category read failed: nothing is
\* outstanding and nothing was issued again.
C12_Witness ==
  /\ last.kind = "categoriesError"
  /\ catState = "done"
  /\ catIssued = 1
  /\ failed = 1
  /\ issued = 1
  /\ inflight = {}

\* C13: the business list changes only by being emptied or by being replaced
\* whole with the rows a successful resolution delivers, and every
\* successful resolution does replace it so; hence the list is always empty
\* or the row list of one resolved fetch, never a merge.
C13_ListNeverMerged ==
  [][ /\ (inflight' # inflight /\ issued' = issued /\ failed' = failed) =>
           /\ last'.kind = "businessesData"
           /\ businesses' = Rows(last'.data)
      /\ businesses' # businesses =>
           \/ businesses' = <<>>
           \/ /\ last'.kind = "businessesData"
              /\ inflight' # inflight
              /\ businesses' = Rows(last'.data) ]_vars

\* The second of two successful fetches (search and location) has replaced
\* the three rows of the first with its own two.
C13_Witness ==
  /\ last.kind = "businessesData"
  /\ last.id = 2
  /\ Len(last.query.ors) = 2
  /\ failed = 0
  /\ inflight = {}
  /\ businesses = <<"b1", "b2">>

\* C15: once mounted, loading true implies that a business fetch is
\* outstanding; so with none outstanding the view is the cards or the
\* empty-state message, never the placeholders.
C15_LoadingImpliesOutstanding ==
  mounted =>
    /\ loading = TRUE => inflight # {}
    /\ inflight = {} => View.kind \in {"cards", "empty"}

\* Placeholders over an earlier result while a fetch is outstanding.
C15_Witness ==
  /\ mounted
  /\ loading = TRUE
  /\ inflight # {}
  /\ businesses # <<>>
  /\ View.kind = "placeholders"

\* C16: when fetches never overlap and none has failed, whenever no fetch is
\* outstanding the list matches the current filters: empty for the default
\* triple, otherwise the rows of a response to the query built from the
\* current triple (the rows the store selects, or none when the response
\* carries no row list).
C16_SequentialListMatchesFilters ==
  (mounted /\ inflight = {} /\ failed = 0) =>
    IF FiltersDefault THEN businesses = <<>>
    ELSE /\ ~Answer[CurrentQuery].error
         /\ businesses \in {Rows(Answer[CurrentQuery].data), Rows(Null)}
         /\ last.kind = "businessesData" =>
              /\ last.query = CurrentQuery
              /\ businesses = Rows(last.data)

\* The second of two successive fetches has been answered and the list is
\* what the store selects for the current filters.
C16_Witness ==
  /\ inflight = {}
  /\ failed = 0
  /\ issued = 2
  /\ ~FiltersDefault
  /\ last.kind = "businessesData"
  /\ Len(businesses) > 0
  /\ businesses = Answer[CurrentQuery].data

Did(st) == \E i \in 1..Len(running.did) : running.did[i] = st

\* C14: statement by statement, within the handling of one fetch: the
\* request is issued only after loading was set; loading is cleared only
\* after the list was replaced (success) or the notification raised
\* (failure), and nothing of the handler is left to run once it is cleared.
C14_LoadingClearedLast ==
  /\ (running.handler = "fetch" /\ Did("await query")) =>
       Did("setLoading(true)")
  /\ (running.handler = "data" /\ Did("setLoading(false)")) =>
       /\ Did("setBusinesses(data || [])")
       /\ running.todo = <<>>
       /\ businesses = Rows(running.data)
       /\ loading = FALSE
  /\ (running.handler = "error" /\ Did("setLoading(false)")) =>
       /\ Did("toast")
       /\ running.todo = <<>>
       /\ toasts = failed
       /\ loading = FALSE

\* Midway through a successful resolution: the list is already the new
\* rows and loading is not yet cleared.
C14_Witness ==
  /\ running.handler = "data"
  /\ running.did = <<"setBusinesses(data || [])">>
  /\ running.todo = <<"setLoading(false)">>
  /\ businesses = Rows(running.data)
  /\ businesses # <<>>
  /\ loading = TRUE

\* Midway through a failure: the notification is raised and loading is not
\* yet cleared.
C14_WitnessError ==
  /\ running.handler = "error"
  /\ running.did = <<"toast">>
  /\ toasts = failed
  /\ loading = TRUE

====
